---- MODULE Spec2Model ----
(***************************************************************************)
(* The trending ticker of src/js/trending-ticker.js as a state machine      *)
(* (specification Spec), and the ticker of src/unnamed/part_001, which     *)
(* declares the same variables, as a second one (specification             *)
(* SpecPart001).                                                           *)
(*                                                                         *)
(* Program state: the module-level `let` variables of the script.          *)
(* Platform state: the clock, the animation-frame callback list, the       *)
(* timer list, the fetch in flight and the intersection observer.          *)
(*                                                                         *)
(* Time is in milliseconds, positions in CSS pixels.  Every elapsed time   *)
(* the model produces is a multiple of 20 ms, so TICKER_SPEED * deltaTime  *)
(* is a whole number of pixels and integer arithmetic is exact.            *)
(*                                                                         *)
(* A rendering update of the page (action Frame) runs every animation      *)
(* frame callback that was pending when it started, all with the same      *)
(* timestamp, and then computes the intersection observations; an observer *)
(* callback is delivered later as a task of its own.  Two rendering        *)
(* updates never share a timestamp, but the timestamp of a rendering       *)
(* update may equal a performance.now() reading taken by a task just       *)
(* before it: that is the zero-elapsed-time tick.                          *)
(***************************************************************************)
EXTENDS Integers, Sequences, FiniteSets, TLC

\* ---------------------------------------------------------------- constants
TICKER_SPEED == 50
TICKER_PAUSE == 2000
NULL == 0

\* ------------------------------------------------------------------- bounds
MaxTime == 5000
TimeSteps == {500, 2000}
ContainerWidths == {100}
EmptyScrollWidths == {100}
RenderedScrollWidths == {120, 300}
MessageScrollWidths == {100}
FixtureLengths == {0, 2}
EmptyOffsetWidths == {100}
\* the test cases of one run, each named after the screenshot file it
\* captures, the runs and the calendar dates of the report writer
TestCases == {1, 2}
Runs == {1, 2}
Dates == {1, 2}
\* the most pages of the site that are broken at once
MaxFaults == 2
\* the most messages collected during one load
MaxErrors == 2
\* the most repos of a payload, and the most stars of a repo
MaxRepos == 3
MaxStars == 2500
\* the longest elapsed time the clock of the unbounded run tells apart; a
\* tick after that much time crosses the whole track
Horizon == 2000

VARIABLES
  \* program variables (src/js/trending-ticker.js:10-17)
  repos, tickerElement, animationId, isPaused, isVisible, direction,
  currentPosition, lastTime,
  \* the DOM the script reads and writes
  containerInDom, innerHTML, transform, scrollWidth, offsetWidth,
  \* the platform
  now, inited, pendingFrames, dwellTimers, fetchState, observerFired,
  ioComputed, lastRender, unloaded,
  \* history of the run
  rafIssued, deltaTime, lastCallbackTime, dwellPhase, shownAt,
  \* src/unnamed/part_001 only: the document, the pending initTicker calls,
  \* the fetches in flight, the closures made by startAnimation and the
  \* closure each pending frame callback belongs to
  readyState, domContentLoadedPending, initTimers, fetchesInFlight,
  closures, frameClosure, elementOffsetWidth

VARIABLES
  \* src/visual-qc.spec.js, the report writer: the working directory
  \* screenshots/, the date directories under ../qc, the clock's date, the
  \* run, the test case whose afterEach hook is due, and the history
  screenshots, qcScreenshots, reportJson, reportMd, today, run, pendingHook,
  executed, everReported, everCopied,
  \* the version of the harness in use
  harness,
  \* the navigation test: what is wrong with the site, the awaited call the
  \* test body is at, the tuple under way, the tuples clicked so far, the
  \* tuples whose failure the result of the test case reports, the result
  navFaults, navStep, navIndex, exercised, navRecorded, navStatus,
  \* the motion proof: the statement the test body is at, the two samples,
  \* the time of the first one, the movement and the result
  motionStep, x0, x1, sampleT0, delta, motionStatus,
  \* a breakpoint test: the breakpoint, the statement the test body is at,
  \* the document's widths, the logo, the overflow check and the result
  bpIndex, bpStep, clientWidth, docScrollWidth, logoVisible, overflowCheck,
  bpStatus,
  \* the error-free load: the messages collected, the statement, the result
  \* and the listener that collected each message
  errors, errStep, errStatus, errorSources,
  \* src/run-review.ps1: the results of main(), the part of main() that is
  \* next, and the exit code of the process
  results, reviewStep, exitCode,
  \* sorting the payload: the implementation, the parsed payload, the
  \* module variable repos as a list, the cards of the row, the step
  implementation, data, sortedRepos, cards, sortStep,
  \* formatNumber: the stars of a repo and the text shown for them
  stars_today, label,
  \* the report writer under parallel workers: for each worker the call of
  \* its afterEach hook that is next, with the testInfo and the date of the
  \* hook under way
  hooks,
  \* the screenshots of the suite: the screenshot statements that have run
  \* and, for each path written, the statements that wrote it
  shotsTaken, shotsWritten

progVars == <<repos, tickerElement, animationId, isPaused, isVisible,
              direction, currentPosition, lastTime>>
domVars == <<containerInDom, innerHTML, transform, scrollWidth, offsetWidth>>
platVars == <<now, inited, pendingFrames, dwellTimers, fetchState,
              observerFired, ioComputed, lastRender, unloaded>>
histVars == <<rafIssued, deltaTime, lastCallbackTime, dwellPhase, shownAt>>
part001Vars == <<readyState, domContentLoadedPending, initTimers,
                 fetchesInFlight, closures, frameClosure,
                 elementOffsetWidth>>
tickerVars == <<progVars, domVars, platVars, histVars, part001Vars>>
reportVars == <<screenshots, qcScreenshots, reportJson, reportMd, today, run,
                pendingHook, executed, everReported, everCopied>>
versionVars == <<harness>>
navVars == <<navFaults, navStep, navIndex, exercised, navRecorded, navStatus>>
motionVars == <<motionStep, x0, x1, sampleT0, delta, motionStatus>>
responsiveVars == <<bpIndex, bpStep, clientWidth, docScrollWidth,
                    logoVisible, overflowCheck, bpStatus>>
errorsVars == <<errors, errStep, errStatus, errorSources>>
reviewVars == <<results, reviewStep, exitCode>>
sortVars == <<implementation, data, sortedRepos, cards, sortStep>>
formatVars == <<stars_today, label>>
parallelVars == <<hooks>>
shotsVars == <<shotsTaken, shotsWritten>>
harnessVars == <<reportVars, versionVars, navVars, motionVars,
                 responsiveVars, errorsVars, reviewVars, sortVars,
                 formatVars,
  parallelVars, shotsVars>>
vars == <<tickerVars, harnessVars>>
\* what the actions of one component leave alone
exceptReport == <<tickerVars, versionVars, navVars, motionVars,
                  responsiveVars, errorsVars, reviewVars, sortVars,
                  formatVars,
  parallelVars, shotsVars>>
exceptNav == <<tickerVars, reportVars, motionVars, responsiveVars,
               errorsVars, reviewVars, sortVars, formatVars,
  parallelVars, shotsVars>>
exceptMotion == <<tickerVars, reportVars, versionVars, navVars,
                  responsiveVars, errorsVars, reviewVars, sortVars,
                  formatVars,
  parallelVars, shotsVars>>
exceptResponsive == <<tickerVars, reportVars, navVars, motionVars,
                      errorsVars, reviewVars, sortVars, formatVars,
  parallelVars, shotsVars>>
exceptErrors == <<tickerVars, reportVars, navVars, motionVars,
                  responsiveVars, reviewVars, sortVars, formatVars,
  parallelVars, shotsVars>>
exceptReview == <<tickerVars, reportVars, versionVars, navVars, motionVars,
                  responsiveVars, errorsVars, sortVars, formatVars,
  parallelVars, shotsVars>>
exceptSort == <<tickerVars, reportVars, versionVars, navVars, motionVars,
                responsiveVars, errorsVars, reviewVars, formatVars,
  parallelVars, shotsVars>>
exceptFormat == <<tickerVars, reportVars, versionVars, navVars, motionVars,
                  responsiveVars, errorsVars, reviewVars, sortVars,
  parallelVars, shotsVars>>
exceptParallel == <<tickerVars, versionVars, navVars, motionVars,
                    responsiveVars, errorsVars, reviewVars, sortVars,
                    formatVars, shotsVars>>
exceptShots == <<tickerVars, reportVars, versionVars, navVars, motionVars,
                 responsiveVars, errorsVars, reviewVars, sortVars,
                 formatVars, parallelVars>>

\* ------------------------------------------------- the components at rest
\* the harness components before a run: nothing captured, nothing written
ReportAtRest ==
  /\ screenshots = <<>>
  /\ qcScreenshots = [d \in Dates |-> <<>>]
  /\ reportJson = [d \in Dates |-> <<>>]
  /\ reportMd = [d \in Dates |-> <<>>]
  /\ today = 1
  /\ run = 1
  /\ pendingHook = <<>>
  /\ executed = {}
  /\ everReported = {}
  /\ everCopied = {}

NavAtRest ==
  /\ navFaults = <<>>
  /\ navStep = "ended"
  /\ navIndex = 1
  /\ exercised = {}
  /\ navRecorded = {}
  /\ navStatus = "none"

MotionAtRest ==
  /\ motionStep = "ended"
  /\ x0 = 0
  /\ x1 = 0
  /\ sampleT0 = 0
  /\ delta = 0
  /\ motionStatus = "none"

ResponsiveAtRest ==
  /\ bpIndex = 1
  /\ bpStep = "ended"
  /\ clientWidth = 0
  /\ docScrollWidth = 0
  /\ logoVisible = FALSE
  /\ overflowCheck = "none"
  /\ bpStatus = "none"

ErrorsAtRest ==
  /\ errors = <<>>
  /\ errStep = "ended"
  /\ errStatus = "none"
  /\ errorSources = <<>>

VersionAtRest == harness = "visual-qc.spec.js"

ReviewAtRest ==
  /\ results = <<>>
  /\ reviewStep = "none"
  /\ exitCode = -1

SortAtRest ==
  /\ implementation = "trending-ticker.js"
  /\ data = <<>>
  /\ sortedRepos = <<>>
  /\ cards = <<>>
  /\ sortStep = "none"

FormatAtRest ==
  /\ stars_today = 0
  /\ label = <<>>

ParallelAtRest == hooks = <<>>

ShotsAtRest ==
  /\ shotsTaken = {}
  /\ shotsWritten = {}

HarnessAtRest ==
  /\ ReportAtRest
  /\ VersionAtRest
  /\ NavAtRest
  /\ MotionAtRest
  /\ ResponsiveAtRest
  /\ ErrorsAtRest
  /\ ReviewAtRest
  /\ SortAtRest
  /\ FormatAtRest
  /\ ParallelAtRest
  /\ ShotsAtRest

\* ------------------------------------------------------------------ helpers
Min(S) == CHOOSE x \in S : \A y \in S : x <= y

\* a handle no live request carries
FreshId(used) == Min((1..(Cardinality(used) + 1)) \ used)

\* TICKER_SPEED * direction * deltaTime, deltaTime = dms / 1000 seconds
Advance(dir, dms) == dir * ((TICKER_SPEED * dms) \div 1000)

\* tickerElement.scrollWidth / 2
ContentWidth == scrollWidth \div 2

\* -(contentWidth - container.offsetWidth)
ReverseBound == -(ContentWidth - offsetWidth)

\* The part of the state one animate callback reads and writes.
Ctx == [currentPosition |-> currentPosition, direction |-> direction,
        isPaused |-> isPaused, lastTime |-> lastTime,
        animationId |-> animationId, batch |-> pendingFrames,
        requested |-> {}, timers |-> dwellTimers, transform |-> transform,
        rafIssued |-> rafIssued, deltaTime |-> deltaTime,
        dwellPhase |-> dwellPhase]

\* animationId = requestAnimationFrame(animate)
RequestFrame(s) ==
  LET id == FreshId(s.batch \cup s.requested \cup {s.animationId})
  IN  [s EXCEPT !.animationId = id, !.requested = @ \cup {id},
                !.rafIssued = TRUE]

\* pauseTicker that sets the timer but leaves isPaused alone
pauseTickerKeepsRunning(s, t) ==
  [s EXCEPT !.timers = Append(@, t + TICKER_PAUSE), !.dwellPhase = "dwell"]

\* pauseTicker with a timer that is due at once
pauseTickerNoDelay(s, t) ==
  [s EXCEPT !.isPaused = TRUE, !.timers = Append(@, t),
            !.dwellPhase = "dwell"]

\* pauseTicker(): isPaused = true; setTimeout(..., TICKER_PAUSE)
pauseTicker(s, t) ==
  [s EXCEPT !.isPaused = TRUE, !.timers = Append(@, t + TICKER_PAUSE),
            !.dwellPhase = "dwell"]

\* Move without the two clamping assignments
MoveNoClamp(s, t) ==
  LET dms == t - s.lastTime
      raw == s.currentPosition + Advance(s.direction, dms)
      s1 == [s EXCEPT !.lastTime = t, !.deltaTime = dms,
                      !.currentPosition = raw,
                      !.dwellPhase = IF @ = "ended" THEN "resumed" ELSE @]
      s2 == IF raw >= 0
              THEN pauseTicker([s1 EXCEPT !.direction = -1], t)
              ELSE IF raw <= ReverseBound
                THEN pauseTicker([s1 EXCEPT !.direction = 1], t)
                ELSE s1
  IN  [s2 EXCEPT !.transform = s2.currentPosition]

\* Move that negates direction at a bound instead of assigning it
MoveNegate(s, t) ==
  LET dms == t - s.lastTime
      raw == s.currentPosition + Advance(s.direction, dms)
      s1 == [s EXCEPT !.lastTime = t, !.deltaTime = dms,
                      !.dwellPhase = IF @ = "ended" THEN "resumed" ELSE @]
      s2 == IF raw >= 0
              THEN pauseTicker([s1 EXCEPT !.currentPosition = 0,
                                          !.direction = -@], t)
              ELSE IF raw <= ReverseBound
                THEN pauseTicker([s1 EXCEPT !.currentPosition = ReverseBound,
                                            !.direction = -@], t)
                ELSE [s1 EXCEPT !.currentPosition = raw]
  IN  [s2 EXCEPT !.transform = s2.currentPosition]

\* the body of `if (!isPaused) { ... }` in animate
Move(s, t) ==
  LET dms == t - s.lastTime
      raw == s.currentPosition + Advance(s.direction, dms)
      s1 == [s EXCEPT !.lastTime = t, !.deltaTime = dms,
                      !.dwellPhase = IF @ = "ended" THEN "resumed" ELSE @]
      s2 == IF raw >= 0
              THEN pauseTicker([s1 EXCEPT !.currentPosition = 0,
                                          !.direction = -1], t)
              ELSE IF raw <= ReverseBound
                THEN pauseTicker([s1 EXCEPT !.currentPosition = ReverseBound,
                                            !.direction = 1], t)
                ELSE [s1 EXCEPT !.currentPosition = raw]
  IN  [s2 EXCEPT !.transform = s2.currentPosition]

\* animate without the else branch that keeps lastTime current while paused
animateStaleTime(s, t) ==
  IF ~tickerElement \/ ~isVisible
    THEN [s EXCEPT !.animationId = NULL]
    ELSE RequestFrame(IF ~s.isPaused THEN Move(s, t) ELSE s)

\* animate without the visibility test
animateIgnoresVisibility(s, t) ==
  IF ~tickerElement
    THEN [s EXCEPT !.animationId = NULL]
    ELSE RequestFrame(IF ~s.isPaused THEN Move(s, t)
                                     ELSE [s EXCEPT !.lastTime = t])

\* animate that returns without animationId = null when the container is
\* hidden
animateKeepsHandle(s, t) ==
  IF ~tickerElement \/ ~isVisible
    THEN s
    ELSE RequestFrame(IF ~s.isPaused THEN Move(s, t)
                                     ELSE [s EXCEPT !.lastTime = t])

\* animate(currentTime)
animate(s, t) ==
  IF ~tickerElement \/ ~isVisible
    THEN [s EXCEPT !.animationId = NULL]
    ELSE RequestFrame(IF ~s.isPaused THEN Move(s, t)
                                     ELSE [s EXCEPT !.lastTime = t])

\* run the callbacks that were pending when the rendering update started
RECURSIVE RunCallbacks(_, _)
RunCallbacks(s, t) ==
  IF s.batch = {} THEN s
  ELSE LET id == Min(s.batch)
       IN  RunCallbacks(animate([s EXCEPT !.batch = @ \ {id}], t), t)

\* --------------------------------------------------------------------- Init
Init ==
  /\ repos = 0
  /\ tickerElement = FALSE
  /\ animationId = NULL
  /\ isPaused = FALSE
  /\ isVisible = TRUE
  /\ direction = -1
  /\ currentPosition = 0
  /\ lastTime = 0
  /\ containerInDom \in BOOLEAN
  /\ innerHTML = "empty"
  /\ transform = 0
  /\ scrollWidth \in EmptyScrollWidths
  /\ offsetWidth \in ContainerWidths
  /\ now = 0
  /\ inited = FALSE
  /\ pendingFrames = {}
  /\ dwellTimers = <<>>
  /\ fetchState = "none"
  /\ observerFired = FALSE
  /\ ioComputed = FALSE
  /\ lastRender = -1
  /\ unloaded = FALSE
  /\ rafIssued = FALSE
  /\ deltaTime = 0
  /\ lastCallbackTime = -1
  /\ dwellPhase = "none"
  /\ shownAt = -1
  /\ readyState = "complete"
  /\ domContentLoadedPending = FALSE
  /\ initTimers = <<>>
  /\ fetchesInFlight = 0
  /\ closures = <<>>
  /\ frameClosure = {}
  /\ elementOffsetWidth = 0
  /\ HarnessAtRest

\* ------------------------------------------------------------------ actions

\* initTicker(): look up the container, observe it, start the fetch
initTicker ==
  /\ ~unloaded /\ ~inited
  /\ inited' = TRUE
  /\ IF containerInDom
       THEN /\ tickerElement' = TRUE
            /\ fetchState' = "pending"
       ELSE UNCHANGED <<tickerElement, fetchState>>
  /\ UNCHANGED <<repos, animationId, isPaused, isVisible, direction,
                 currentPosition, lastTime, domVars, now, pendingFrames,
                 dwellTimers, observerFired, ioComputed, lastRender,
                 unloaded, histVars, part001Vars,
                 harnessVars>>

\* time passes
TimePasses(d) ==
  /\ ~unloaded
  /\ now + d <= MaxTime
  /\ now' = now + d
  /\ UNCHANGED <<progVars, domVars, inited, pendingFrames, dwellTimers,
                 fetchState, observerFired, ioComputed, lastRender, unloaded,
                 histVars, part001Vars,
                 harnessVars>>

\* one rendering update: the pending animate callbacks, then the
\* intersection observations
Frame ==
  /\ ~unloaded
  /\ now > lastRender
  /\ lastRender' = now
  /\ ioComputed' = (tickerElement \/ ioComputed)
  /\ LET s0 == [Ctx EXCEPT !.dwellPhase = IF @ = "resumed" THEN "none" ELSE @]
         s == RunCallbacks(s0, now)
     IN  /\ currentPosition' = s.currentPosition
         /\ direction' = s.direction
         /\ isPaused' = s.isPaused
         /\ lastTime' = s.lastTime
         /\ animationId' = s.animationId
         /\ pendingFrames' = s.requested
         /\ dwellTimers' = s.timers
         /\ transform' = s.transform
         /\ rafIssued' = s.rafIssued
         /\ deltaTime' = s.deltaTime
         /\ dwellPhase' = s.dwellPhase
  /\ lastCallbackTime' = IF pendingFrames = {} THEN lastCallbackTime ELSE now
  /\ shownAt' = IF pendingFrames # {} /\ isVisible THEN -1 ELSE shownAt
  /\ UNCHANGED <<repos, tickerElement, isVisible, containerInDom, innerHTML,
                 scrollWidth, offsetWidth, now, inited, fetchState,
                 observerFired, unloaded, part001Vars,
                 harnessVars>>

\* the IntersectionObserver callback of initTicker, delivered with
\* entries[0].isIntersecting = b: once for the initial observation and then
\* whenever the intersection state changed, each time after a rendering
\* update has computed the observation
ObserverCallback(b) ==
  /\ ~unloaded
  /\ tickerElement /\ ioComputed
  /\ ~observerFired \/ b # isVisible
  /\ observerFired' = TRUE
  /\ ioComputed' = FALSE
  /\ isVisible' = b
  /\ IF b /\ animationId = NULL
       THEN LET s == RequestFrame([Ctx EXCEPT !.batch = pendingFrames])
            IN  /\ lastTime' = now
                /\ animationId' = s.animationId
                /\ pendingFrames' = pendingFrames \cup s.requested
                /\ rafIssued' = TRUE
       ELSE UNCHANGED <<lastTime, animationId, pendingFrames, rafIssued>>
  /\ shownAt' = IF b /\ ~isVisible THEN now ELSE IF ~b THEN -1 ELSE shownAt
  /\ UNCHANGED <<repos, tickerElement, isPaused, direction, currentPosition,
                 domVars, now, inited, dwellTimers, fetchState, lastRender,
                 unloaded, deltaTime, lastCallbackTime, dwellPhase,
                 part001Vars,
                 harnessVars>>

\* startAnimation()
startAnimation ==
  LET s == RequestFrame([Ctx EXCEPT !.batch = pendingFrames])
  IN  /\ lastTime' = now
      /\ animationId' = s.animationId
      /\ pendingFrames' = pendingFrames \cup s.requested
      /\ rafIssued' = TRUE

\* renderTicker() for a fixture of n repos laid out w pixels wide
renderTicker(n, w) ==
  IF n = 0
    THEN UNCHANGED <<innerHTML, scrollWidth, transform>>
    ELSE /\ innerHTML' = "cards"
         /\ scrollWidth' = w
         /\ transform' = 0

\* the fetch resolves with a parseable array: sort, render, start
FetchResolved(n, w) ==
  /\ ~unloaded
  /\ fetchState = "pending"
  /\ fetchState' = "ok"
  /\ repos' = n
  /\ renderTicker(n, w)
  /\ startAnimation
  /\ UNCHANGED <<tickerElement, isPaused, isVisible, direction,
                 currentPosition, containerInDom, offsetWidth, now, inited,
                 dwellTimers, observerFired, ioComputed, lastRender, unloaded,
                 deltaTime, lastCallbackTime, dwellPhase, shownAt, part001Vars,
                 harnessVars>>

\* network error, non-OK response or unparseable payload: the catch handler
FetchFailed(w) ==
  /\ ~unloaded
  /\ fetchState = "pending"
  /\ fetchState' = "failed"
  /\ innerHTML' = "error"
  /\ scrollWidth' = w
  /\ UNCHANGED <<progVars, containerInDom, transform, offsetWidth, now,
                 inited, pendingFrames, dwellTimers, observerFired,
                 ioComputed, lastRender, unloaded, histVars, part001Vars,
                 harnessVars>>

\* the timer set by pauseTicker fires: isPaused = false
DwellTimerFires ==
  /\ ~unloaded
  /\ dwellTimers # <<>>
  /\ Head(dwellTimers) <= now
  /\ dwellTimers' = Tail(dwellTimers)
  /\ isPaused' = FALSE
  /\ dwellPhase' = "ended"
  /\ UNCHANGED <<repos, tickerElement, animationId, isVisible, direction,
                 currentPosition, lastTime, domVars, now, inited,
                 pendingFrames, fetchState, observerFired, ioComputed,
                 lastRender, unloaded, rafIssued, deltaTime,
                 lastCallbackTime, shownAt, part001Vars,
                 harnessVars>>

\* the page is unloaded; the script registers no handler for it
Unload ==
  /\ ~unloaded
  /\ inited
  /\ unloaded' = TRUE
  /\ UNCHANGED <<progVars, domVars, now, inited, pendingFrames, dwellTimers,
                 fetchState, observerFired, ioComputed, lastRender, histVars,
                 part001Vars,
                 harnessVars>>

Next ==
  \/ initTicker
  \/ \E d \in TimeSteps : TimePasses(d)
  \/ Frame
  \/ \E b \in BOOLEAN : ObserverCallback(b)
  \/ \E n \in FixtureLengths, w \in RenderedScrollWidths : FetchResolved(n, w)
  \/ \E w \in MessageScrollWidths : FetchFailed(w)
  \/ DwellTimerFires
  \/ Unload

Spec == Init /\ [][Next]_vars

\* ------------------------------------------------- the run without an end
\* Time without a bound: the clock reading now stays where it is and every
\* time kept in the state moves into the past instead, down to Horizon
\* before now; -1 stands for "never".
ShiftTime(t, d) ==
  IF t = -1 THEN -1 ELSE IF t - d < -Horizon THEN -Horizon ELSE t - d

\* time passes
LiveTimePasses(d) ==
  /\ ~unloaded
  /\ lastTime' = (IF lastTime - d < -Horizon THEN -Horizon ELSE lastTime - d)
  /\ lastRender' = ShiftTime(lastRender, d)
  /\ lastCallbackTime' = ShiftTime(lastCallbackTime, d)
  /\ shownAt' = ShiftTime(shownAt, d)
  /\ dwellTimers' = [i \in 1..Len(dwellTimers) |->
                       IF dwellTimers[i] - d < -Horizon
                         THEN -Horizon ELSE dwellTimers[i] - d]
  /\ UNCHANGED <<repos, tickerElement, animationId, isPaused, isVisible,
                 direction, currentPosition, domVars, now, inited,
                 pendingFrames, fetchState, observerFired, ioComputed,
                 unloaded, rafIssued, deltaTime, dwellPhase, part001Vars,
                 harnessVars>>

\* The runs in which the fixture loads and the track has a positive length:
\* a failed fetch, an empty or narrow fixture, a missing container and an
\* unloaded page are for good, so the other runs never get there.
TrackFixtureLengths == {2}
TrackScrollWidths == {300}
LiveTimeSteps == {500}

InitLive ==
  /\ Init
  /\ containerInDom

NextLive ==
  \/ initTicker
  \/ \E d \in LiveTimeSteps : LiveTimePasses(d)
  \/ Frame
  \/ \E b \in BOOLEAN : ObserverCallback(b)
  \/ \E n \in TrackFixtureLengths, w \in TrackScrollWidths :
       FetchResolved(n, w)
  \/ DwellTimerFires

\* the step of Frame as far as the rendering clock goes: Frame is the one
\* action that sets lastRender to now, and it can do so whenever now is
\* later than lastRender
RenderingUpdate ==
  /\ ~unloaded
  /\ now > lastRender
  /\ lastRender' = now

\* the browser runs a rendering update whenever one is due, fires a timer
\* that is due, and time passes
SpecLive ==
  /\ InitLive
  /\ [][NextLive]_vars
  /\ WF_lastRender(RenderingUpdate)
  /\ WF_vars(DwellTimerFires)
  /\ WF_vars(\E d \in LiveTimeSteps : LiveTimePasses(d))

\* ---------------------------------------------------------------- type check
TypeOK ==
  /\ animationId \in 0..4
  /\ pendingFrames \subseteq 1..4
  /\ direction \in {-1, 1}
  /\ now \in 0..MaxTime
  /\ lastTime \in 0..MaxTime
  /\ fetchState \in {"none", "pending", "ok", "failed"}
  /\ dwellPhase \in {"none", "dwell", "ended", "resumed"}

\* ================================================== src/unnamed/part_001

\* the state one animate callback of part_001 reads and writes
Ctx001 == [currentPosition |-> currentPosition, direction |-> direction,
           isPaused |-> isPaused, animationId |-> animationId,
           batch |-> pendingFrames, requested |-> {}, owner |-> {},
           timers |-> dwellTimers, transform |-> transform,
           closures |-> closures]

\* animationId = requestAnimationFrame(animate), animate of closure k
RequestFrame001(s, k) ==
  LET id == FreshId(s.batch \cup s.requested \cup {s.animationId})
  IN  [s EXCEPT !.animationId = id, !.requested = @ \cup {id},
                !.owner = @ \cup {<<id, k>>}]

\* isPaused = true; setTimeout(() => { isPaused = false; }, TICKER_PAUSE)
Pause001(s, t) ==
  [s EXCEPT !.isPaused = TRUE, !.timers = Append(@, t + TICKER_PAUSE)]

\* animate(currentTime) of the closure k made by startAnimation
animate001(s, k, t) ==
  LET dms == t - s.closures[k].lastTime
      raw == s.currentPosition + Advance(s.direction, dms)
      s1 == [s EXCEPT !.closures[k].lastTime = t, !.currentPosition = raw,
                      !.transform = raw]
      s2 == IF raw >= 0
              THEN Pause001([s1 EXCEPT !.direction = -1], t)
              ELSE IF raw <= -(s.closures[k].contentWidth - offsetWidth)
                THEN Pause001([s1 EXCEPT !.direction = 1], t)
                ELSE s1
  IN  RequestFrame001(IF ~s.isPaused THEN s2 ELSE s, k)

\* the closure the pending callback id belongs to
ClosureOf(id) == CHOOSE k \in 1..Len(closures) : <<id, k>> \in frameClosure

RECURSIVE RunCallbacks001(_, _)
RunCallbacks001(s, t) ==
  IF s.batch = {} THEN s
  ELSE LET id == Min(s.batch)
       IN  RunCallbacks001(
             animate001([s EXCEPT !.batch = @ \ {id}], ClosureOf(id), t), t)

\* the state after the script of part_001 has run: the DOMContentLoaded
\* listener is registered, and initTicker is also due in 100 ms when the
\* document was already interactive or complete
InitPart001 ==
  /\ repos = 0
  /\ tickerElement = FALSE
  /\ animationId = NULL
  /\ isPaused = FALSE
  /\ isVisible = TRUE
  /\ direction = 1
  /\ currentPosition = 0
  /\ lastTime = 0
  /\ containerInDom \in BOOLEAN
  /\ innerHTML = "empty"
  /\ transform = 0
  /\ scrollWidth = 0
  /\ offsetWidth \in ContainerWidths
  /\ now = 0
  /\ inited = FALSE
  /\ pendingFrames = {}
  /\ dwellTimers = <<>>
  /\ fetchState = "none"
  /\ observerFired = FALSE
  /\ ioComputed = FALSE
  /\ lastRender = -1
  /\ unloaded = FALSE
  /\ rafIssued = FALSE
  /\ deltaTime = 0
  /\ lastCallbackTime = -1
  /\ dwellPhase = "none"
  /\ shownAt = -1
  /\ readyState \in {"loading", "interactive", "complete"}
  /\ domContentLoadedPending \in
       CASE readyState = "loading" -> {TRUE}
         [] readyState = "interactive" -> BOOLEAN
         [] OTHER -> {FALSE}
  /\ initTimers = IF readyState = "loading" THEN <<>> ELSE <<100>>
  /\ fetchesInFlight = 0
  /\ closures = <<>>
  /\ frameClosure = {}
  /\ elementOffsetWidth \in EmptyOffsetWidths
  /\ HarnessAtRest

\* what no action of part_001 touches
Idle001 ==
  UNCHANGED <<isVisible, lastTime, containerInDom, scrollWidth, offsetWidth,
              fetchState, observerFired, ioComputed, histVars, readyState,
              harnessVars>>

\* initTicker(): look up the container and start a fetch
initTicker001 ==
  /\ inited' = TRUE
  /\ tickerElement' = containerInDom
  /\ fetchesInFlight' = IF containerInDom THEN fetchesInFlight + 1
                                          ELSE fetchesInFlight
  /\ UNCHANGED <<repos, animationId, isPaused, direction, currentPosition,
                 innerHTML, transform, now, pendingFrames, dwellTimers,
                 lastRender, unloaded, closures, frameClosure,
                 elementOffsetWidth>>
  /\ Idle001

\* the DOMContentLoaded listener runs initTicker
DOMContentLoaded001 ==
  /\ ~unloaded
  /\ domContentLoadedPending
  /\ domContentLoadedPending' = FALSE
  /\ initTicker001
  /\ UNCHANGED initTimers

\* setTimeout(initTicker, 100) fires
InitTimerFires001 ==
  /\ ~unloaded
  /\ initTimers # <<>>
  /\ Head(initTimers) <= now
  /\ initTimers' = Tail(initTimers)
  /\ initTicker001
  /\ UNCHANGED domContentLoadedPending

\* a fetch resolves: sort, renderTicker, startAnimation
FetchResolved001(n) ==
  /\ ~unloaded
  /\ fetchesInFlight > 0
  /\ fetchesInFlight' = fetchesInFlight - 1
  /\ repos' = n
  \* renderTicker: width = (repos.length * 2) + '00%' of the container
  /\ IF n = 0
       THEN UNCHANGED <<innerHTML, elementOffsetWidth>>
       ELSE /\ innerHTML' = "cards"
            /\ elementOffsetWidth' = 2 * n * offsetWidth
  \* startAnimation: contentWidth and lastTime are locals of the closure
  /\ closures' = Append(closures, [lastTime |-> now,
                          contentWidth |-> elementOffsetWidth' \div 2])
  /\ LET s == RequestFrame001([Ctx001 EXCEPT !.batch = pendingFrames],
                              Len(closures'))
     IN  /\ animationId' = s.animationId
         /\ pendingFrames' = pendingFrames \cup s.requested
         /\ frameClosure' = frameClosure \cup s.owner
  /\ UNCHANGED <<tickerElement, isPaused, direction, currentPosition,
                 transform, now, inited, dwellTimers, lastRender, unloaded,
                 domContentLoadedPending, initTimers>>
  /\ Idle001

\* a fetch fails: the catch handler shows the fallback message
FetchFailed001 ==
  /\ ~unloaded
  /\ fetchesInFlight > 0
  /\ fetchesInFlight' = fetchesInFlight - 1
  /\ innerHTML' = "error"
  /\ UNCHANGED <<repos, tickerElement, animationId, isPaused, direction,
                 currentPosition, transform, now, inited, pendingFrames,
                 dwellTimers, lastRender, unloaded, domContentLoadedPending,
                 initTimers, closures, frameClosure, elementOffsetWidth>>
  /\ Idle001

\* one rendering update: every pending animate callback runs
Frame001 ==
  /\ ~unloaded
  /\ now > lastRender
  /\ lastRender' = now
  /\ LET s == RunCallbacks001(Ctx001, now)
     IN  /\ currentPosition' = s.currentPosition
         /\ direction' = s.direction
         /\ isPaused' = s.isPaused
         /\ animationId' = s.animationId
         /\ pendingFrames' = s.requested
         /\ frameClosure' = s.owner
         /\ dwellTimers' = s.timers
         /\ transform' = s.transform
         /\ closures' = s.closures
  /\ UNCHANGED <<repos, tickerElement, innerHTML, now, inited, unloaded,
                 domContentLoadedPending, initTimers, fetchesInFlight,
                 elementOffsetWidth>>
  /\ Idle001

\* the timer of a dwell fires: isPaused = false
DwellTimerFires001 ==
  /\ ~unloaded
  /\ dwellTimers # <<>>
  /\ Head(dwellTimers) <= now
  /\ dwellTimers' = Tail(dwellTimers)
  /\ isPaused' = FALSE
  /\ UNCHANGED <<repos, tickerElement, animationId, direction,
                 currentPosition, innerHTML, transform, now, inited,
                 pendingFrames, lastRender, unloaded,
                 domContentLoadedPending, initTimers, fetchesInFlight,
                 closures, frameClosure, elementOffsetWidth>>
  /\ Idle001

\* time passes
TimePasses001(d) ==
  /\ ~unloaded
  /\ now + d <= MaxTime
  /\ now' = now + d
  /\ UNCHANGED <<progVars, domVars, inited, pendingFrames, dwellTimers,
                 fetchState, observerFired, ioComputed, lastRender, unloaded,
                 histVars, part001Vars,
                 harnessVars>>

\* the unload listener: if (animationId) cancelAnimationFrame(animationId)
Unload001 ==
  /\ ~unloaded
  /\ unloaded' = TRUE
  /\ IF animationId # NULL
       THEN /\ pendingFrames' = pendingFrames \ {animationId}
            /\ frameClosure' = {p \in frameClosure : p[1] # animationId}
       ELSE UNCHANGED <<pendingFrames, frameClosure>>
  /\ UNCHANGED <<repos, tickerElement, animationId, isPaused, direction,
                 currentPosition, innerHTML, transform, now, inited,
                 dwellTimers, lastRender, domContentLoadedPending,
                 initTimers, fetchesInFlight, closures, elementOffsetWidth>>
  /\ Idle001

NextPart001 ==
  \/ DOMContentLoaded001
  \/ InitTimerFires001
  \/ \E n \in FixtureLengths : FetchResolved001(n)
  \/ FetchFailed001
  \/ Frame001
  \/ DwellTimerFires001
  \/ \E d \in TimeSteps : TimePasses001(d)
  \/ Unload001

SpecPart001 == InitPart001 /\ [][NextPart001]_vars

\* ---------------------------------------------------- the page, not loaded
\* the page before the ticker script ran; the harness components below are
\* specified on their own and leave the ticker alone
TickerAtRest ==
  /\ repos = 0
  /\ tickerElement = FALSE
  /\ animationId = NULL
  /\ isPaused = FALSE
  /\ isVisible = TRUE
  /\ direction = -1
  /\ currentPosition = 0
  /\ lastTime = 0
  /\ containerInDom = TRUE
  /\ innerHTML = "empty"
  /\ transform = 0
  /\ scrollWidth = 100
  /\ offsetWidth = 100
  /\ now = 0
  /\ inited = FALSE
  /\ pendingFrames = {}
  /\ dwellTimers = <<>>
  /\ fetchState = "none"
  /\ observerFired = FALSE
  /\ ioComputed = FALSE
  /\ lastRender = -1
  /\ unloaded = FALSE
  /\ rafIssued = FALSE
  /\ deltaTime = 0
  /\ lastCallbackTime = -1
  /\ dwellPhase = "none"
  /\ shownAt = -1
  /\ readyState = "complete"
  /\ domContentLoadedPending = FALSE
  /\ initTimers = <<>>
  /\ fetchesInFlight = 0
  /\ closures = <<>>
  /\ frameClosure = {}
  /\ elementOffsetWidth = 0

\* ----------------------------- src/visual-qc.spec.js: the report writer
\* A directory is a function from the names of its files to their content.
\* A screenshot's content is the pair <<run, test case>> that captured it.
\* report.json is the sequence of the result entries in the file.

\* the files of a directory
Files(dir) == DOMAIN dir

\* fs.copyFileSync of every file of src into dst: a file of the same name
\* is replaced
CopyAll(src, dst) ==
  [f \in Files(dst) \cup Files(src) |->
     IF f \in Files(src) THEN src[f] ELSE dst[f]]

\* page.screenshot({ path: 'screenshots/<name>.png' }) for every name of
\* shots, by test case t of the current run
Capture(dir, shots, t) ==
  [f \in Files(dir) \cup shots |->
     IF f \in shots THEN <<run, t>> ELSE dir[f]]

\* the test cases of the current run whose hook has run
DoneInRun == {e.test : e \in {x \in executed : x.run = run}}

InitReport ==
  /\ TickerAtRest
  /\ HarnessAtRest

\* the body of test case t: it captures its screenshot as its last
\* statement, so a case that fails before it captures nothing
RunTestBody(t, status) ==
  /\ pendingHook = <<>>
  /\ t \notin DoneInRun
  /\ LET shots == IF status = "passed" THEN {t} ELSE {}
     IN  /\ screenshots' = Capture(screenshots, shots, t)
         /\ pendingHook' = <<[test |-> t, status |-> status,
                              captured |-> shots]>>
  /\ UNCHANGED <<qcScreenshots, reportJson, reportMd, today, run, executed,
                 everReported, everCopied>>
  /\ UNCHANGED exceptReport

\* test.afterEach: make the date directory, copy screenshots/*.png into it,
\* write report.json and report.md
afterEach ==
  /\ pendingHook # <<>>
  /\ LET testInfo == Head(pendingHook)
         report == [timestamp |-> run, test |-> testInfo.test,
                    status |-> testInfo.status,
                    artifacts |-> Files(screenshots)]
     IN  /\ qcScreenshots' = [qcScreenshots EXCEPT
                                ![today] = CopyAll(screenshots, @)]
         /\ reportJson' = [reportJson EXCEPT ![today] = <<report>>]
         /\ reportMd' = [reportMd EXCEPT
                           ![today] = <<[test |-> testInfo.test,
                                         status |-> testInfo.status]>>]
         /\ executed' = executed \cup
              {[run |-> run, test |-> testInfo.test,
                status |-> testInfo.status,
                captured |-> testInfo.captured, date |-> today]}
         /\ everReported' = everReported \cup {<<today, report>>}
         /\ everCopied' = everCopied \cup
              {<<today, f, screenshots[f]>> : f \in Files(screenshots)}
  /\ pendingHook' = <<>>
  /\ UNCHANGED <<screenshots, today, run>>
  /\ UNCHANGED exceptReport

\* the harness is started again: screenshots/ and ../qc are kept
NewRun ==
  /\ pendingHook = <<>>
  /\ DoneInRun # {}
  /\ run + 1 \in Runs
  /\ run' = run + 1
  /\ UNCHANGED <<screenshots, qcScreenshots, reportJson, reportMd, today,
                 pendingHook, executed, everReported, everCopied>>
  /\ UNCHANGED exceptReport

\* midnight: new Date() gives the next date
DateRolls ==
  /\ today + 1 \in Dates
  /\ today' = today + 1
  /\ UNCHANGED <<screenshots, qcScreenshots, reportJson, reportMd, run,
                 pendingHook, executed, everReported, everCopied>>
  /\ UNCHANGED exceptReport

NextReport ==
  \/ \E t \in TestCases, status \in {"passed", "failed"} :
       RunTestBody(t, status)
  \/ afterEach
  \/ NewRun
  \/ DateRolls

SpecReport == InitReport /\ [][NextReport]_vars

\* ------------- src/visual-qc.spec.js: the report writer, parallel workers
\* the worker processes of the runner; each runs its test cases and their
\* afterEach hooks one after the other, and the synchronous fs calls of
\* different workers interleave
Workers == {1, 2}

IdleHook == [step |-> "idle", testInfo |-> <<>>, date |-> 0]

\* no hook is between its first and its last fs call
AllHooksIdle == \A w \in Workers : hooks[w].step = "idle"

\* the test cases a worker is running or reporting
Assigned == {hooks[w].testInfo.test : w \in {v \in Workers : hooks[v].step # "idle"}}

InitParallel ==
  /\ TickerAtRest
  /\ ReportAtRest
  /\ VersionAtRest
  /\ NavAtRest
  /\ MotionAtRest
  /\ ResponsiveAtRest
  /\ ErrorsAtRest
  /\ ReviewAtRest
  /\ SortAtRest
  /\ FormatAtRest
  /\ ShotsAtRest
  /\ hooks = [w \in Workers |-> IdleHook]

\* worker w runs the body of test case t; its afterEach hook is due
RunTestBodyOn(w, t, status) ==
  /\ hooks[w].step = "idle"
  /\ t \notin DoneInRun \cup Assigned
  /\ LET shots == IF status = "passed" THEN {t} ELSE {}
     IN  /\ screenshots' = Capture(screenshots, shots, t)
         /\ hooks' = [hooks EXCEPT
                        ![w] = [step |-> "copy",
                                testInfo |-> [test |-> t, status |-> status,
                                              captured |-> shots],
                                date |-> 0]]
  /\ UNCHANGED <<qcScreenshots, reportJson, reportMd, today, run,
                 pendingHook, executed, everReported, everCopied>>
  /\ UNCHANGED exceptParallel

\* lines 249-266 of the hook of worker w: take the date, make the date
\* directory and copy screenshots/*.png into it
HookCopy(w) ==
  /\ hooks[w].step = "copy"
  /\ qcScreenshots' = [qcScreenshots EXCEPT
                         ![today] = CopyAll(screenshots, @)]
  /\ everCopied' = everCopied \cup
       {<<today, f, screenshots[f]>> : f \in Files(screenshots)}
  /\ hooks' = [hooks EXCEPT ![w].step = "json", ![w].date = today]
  /\ UNCHANGED <<screenshots, reportJson, reportMd, today, run, pendingHook,
                 executed, everReported>>
  /\ UNCHANGED exceptParallel

\* lines 269-284 of the hook of worker w: list screenshots/ and write
\* report.json
HookJson(w) ==
  /\ hooks[w].step = "json"
  /\ LET testInfo == hooks[w].testInfo
         report == [timestamp |-> run, test |-> testInfo.test,
                    status |-> testInfo.status,
                    artifacts |-> Files(screenshots)]
     IN  /\ reportJson' = [reportJson EXCEPT ![hooks[w].date] = <<report>>]
         /\ everReported' = everReported \cup {<<hooks[w].date, report>>}
  /\ hooks' = [hooks EXCEPT ![w].step = "md"]
  /\ UNCHANGED <<screenshots, qcScreenshots, reportMd, today, run,
                 pendingHook, executed, everCopied>>
  /\ UNCHANGED exceptParallel

\* line 287 of the hook of worker w: write report.md; the hook returns
HookMd(w) ==
  /\ hooks[w].step = "md"
  /\ LET testInfo == hooks[w].testInfo
     IN  /\ reportMd' = [reportMd EXCEPT
                           ![hooks[w].date] =
                              <<[test |-> testInfo.test,
                                 status |-> testInfo.status]>>]
         /\ executed' = executed \cup
              {[run |-> run, test |-> testInfo.test,
                status |-> testInfo.status,
                captured |-> testInfo.captured, date |-> hooks[w].date]}
  /\ hooks' = [hooks EXCEPT ![w] = IdleHook]
  /\ UNCHANGED <<screenshots, qcScreenshots, reportJson, today, run,
                 pendingHook, everReported, everCopied>>
  /\ UNCHANGED exceptParallel

\* the harness is started again once every worker has ended
NewRunParallel ==
  /\ AllHooksIdle
  /\ NewRun

NextParallel ==
  \/ \E w \in Workers, t \in TestCases, status \in {"passed", "failed"} :
       RunTestBodyOn(w, t, status)
  \/ \E w \in Workers : HookCopy(w)
  \/ \E w \in Workers : HookJson(w)
  \/ \E w \in Workers : HookMd(w)
  \/ NewRunParallel
  \/ DateRolls

SpecParallel == InitParallel /\ [][NextParallel]_vars

\* ------------------ src/visual-qc.spec.js, src/unnamed/part_000: the walk
\* the two versions of the harness
Harnesses == {"visual-qc.spec.js", "part_000"}

\* the (path, marker) tuples of the navigation test, in the order walked
pagesToTest ==
  <<"home", "blog", "reviews", "walkthroughs", "resources", "kai-corner",
    "tasks", "tools">>

NavPages == 1..Len(pagesToTest)

\* what can be wrong with a page: its link is not in the navigation, its
\* link leads to another URL, or its marker element is not visible
NavFaultKinds == {"none", "link", "url", "marker"}

Faulty(f) == {p \in NavPages : f[p] # "none"}

InitNav ==
  /\ TickerAtRest
  /\ ReportAtRest
  /\ MotionAtRest
  /\ ResponsiveAtRest
  /\ ErrorsAtRest
  /\ ReviewAtRest
  /\ SortAtRest
  /\ FormatAtRest
  /\ ParallelAtRest
  /\ ShotsAtRest
  /\ harness \in Harnesses
  /\ navFaults \in {f \in [NavPages -> NavFaultKinds] :
                      Cardinality(Faulty(f)) <= MaxFaults}
  /\ navStep = IF harness = "visual-qc.spec.js" THEN "count" ELSE "click"
  /\ navIndex = 1
  /\ exercised = {}
  /\ navRecorded = {}
  /\ navStatus = "running"

\* an awaited call of the test body throws: the test case ends as failed
\* with this one error
NavThrow(p) ==
  /\ navStatus' = "failed"
  /\ navStep' = "ended"
  /\ navRecorded' = p
  /\ UNCHANGED <<harness, navFaults, navIndex>>

NavProceed(step) ==
  /\ navStep' = step
  /\ UNCHANGED <<harness, navFaults, navIndex, navRecorded, navStatus>>

\* visual-qc.spec.js only: expect(count).toBe(8) on the links of the nav
NavCount ==
  /\ navStep = "count"
  /\ LET missing == {p \in NavPages : navFaults[p] = "link"}
     IN  IF missing # {} THEN NavThrow(missing) ELSE NavProceed("click")
  /\ UNCHANGED <<exercised>>
  /\ UNCHANGED exceptNav

\* await page.click(`nav a[href="${pg.path}"]`), waitForLoadState
NavClick ==
  /\ navStep = "click"
  /\ exercised' = exercised \cup {navIndex}
  /\ IF navFaults[navIndex] = "link"
       THEN NavThrow({navIndex})
       ELSE NavProceed("url")
  /\ UNCHANGED exceptNav

\* await expect(page).toHaveURL(...)
NavUrl ==
  /\ navStep = "url"
  /\ IF navFaults[navIndex] = "url"
       THEN NavThrow({navIndex})
       ELSE NavProceed("marker")
  /\ UNCHANGED <<exercised>>
  /\ UNCHANGED exceptNav

\* await expect(element).toBeVisible({ timeout: 5000 })
NavMarker ==
  /\ navStep = "marker"
  /\ IF navFaults[navIndex] = "marker"
       THEN NavThrow({navIndex})
       ELSE NavProceed("screenshot")
  /\ UNCHANGED <<exercised>>
  /\ UNCHANGED exceptNav

\* await page.screenshot(...), then the next tuple or the end of the loop
NavScreenshot ==
  /\ navStep = "screenshot"
  /\ IF navIndex < Len(pagesToTest)
       THEN /\ navIndex' = navIndex + 1
            /\ navStep' = "click"
            /\ UNCHANGED navStatus
       ELSE /\ navStep' = "ended"
            /\ navStatus' = "passed"
            /\ UNCHANGED navIndex
  /\ UNCHANGED <<harness, navFaults, exercised, navRecorded>>
  /\ UNCHANGED exceptNav

NextNav ==
  \/ NavCount
  \/ NavClick
  \/ NavUrl
  \/ NavMarker
  \/ NavScreenshot

SpecNav == InitNav /\ [][NextNav]_vars

\* ------------- src/visual-qc.spec.js: the motion proof on the live ticker
\* the wait between the two samples and the least movement that passes
SAMPLE_WAIT == 3000
MIN_DELTA == 5

\* the interval of the rendering updates of a browser that keeps up, and
\* the layout of the loaded ticker: two cards, a track of 50 px
FrameIntervals == {500}
MotionFixtureLengths == {2}
MotionScrollWidths == {300}

Abs(x) == IF x < 0 THEN -x ELSE x

\* boundingBox().x of the ticker content, relative to its untranslated place
BoundingBoxX == transform

InitMotion ==
  /\ TickerAtRest
  /\ ReportAtRest
  /\ VersionAtRest
  /\ NavAtRest
  /\ ResponsiveAtRest
  /\ ErrorsAtRest
  /\ ReviewAtRest
  /\ SortAtRest
  /\ FormatAtRest
  /\ ParallelAtRest
  /\ ShotsAtRest
  /\ motionStep = "start"
  /\ x0 = 0
  /\ x1 = 0
  /\ sampleT0 = 0
  /\ delta = 0
  /\ motionStatus = "running"

\* time passes on a page whose browser keeps up: the script has run, the
\* rendering update of this instant is done and no dwell timer is overdue
SteadyTimePasses ==
  /\ inited
  /\ pendingFrames # {} => lastRender = now
  /\ dwellTimers # <<>> => Head(dwellTimers) > now
  /\ \E d \in FrameIntervals : TimePasses(d)

\* expect(tickerContent).toBeVisible(), then box0 = boundingBox()
SampleT0 ==
  /\ motionStep = "start"
  /\ innerHTML = "cards"
  /\ x0' = BoundingBoxX
  /\ sampleT0' = now
  /\ motionStep' = "waiting"
  /\ UNCHANGED <<x1, delta, motionStatus>>
  /\ UNCHANGED exceptMotion

\* waitForTimeout(3000) is over: box1 = boundingBox(),
\* expect(Math.abs(x1 - x0)).toBeGreaterThan(5)
SampleT1 ==
  /\ motionStep = "waiting"
  /\ now >= sampleT0 + SAMPLE_WAIT
  /\ x1' = BoundingBoxX
  /\ delta' = Abs(x1' - x0)
  /\ motionStatus' = IF delta' > MIN_DELTA THEN "passed" ELSE "failed"
  /\ motionStep' = "ended"
  /\ UNCHANGED <<x0, sampleT0>>
  /\ UNCHANGED exceptMotion

NextMotion ==
  \/ initTicker
  \/ \E n \in MotionFixtureLengths, w \in MotionScrollWidths :
       FetchResolved(n, w)
  \/ ObserverCallback(TRUE)
  \/ Frame
  \/ DwellTimerFires
  \/ SteadyTimePasses
  \/ SampleT0
  \/ SampleT1

SpecMotion == InitMotion /\ [][NextMotion]_vars

\* --------- src/visual-qc.spec.js, src/unnamed/part_000: the breakpoints
\* the widths of the six breakpoints, in the order of the source
breakpoints == <<320, 375, 414, 768, 1280, 1920>>

\* by how many pixels the laid out document is wider than the viewport
Overflows == {0, 1, 2}

\* assertNoHorizontalScroll: doc.scrollWidth > doc.clientWidth + 1
hasOverflow(sw, cw) == sw > cw + 1

InitResponsive ==
  /\ TickerAtRest
  /\ ReportAtRest
  /\ NavAtRest
  /\ MotionAtRest
  /\ ErrorsAtRest
  /\ ReviewAtRest
  /\ SortAtRest
  /\ FormatAtRest
  /\ ParallelAtRest
  /\ ShotsAtRest
  /\ harness \in Harnesses
  /\ bpIndex \in 1..Len(breakpoints)
  /\ bpStep = "setViewportSize"
  /\ clientWidth = 0
  /\ docScrollWidth = 0
  /\ logoVisible = FALSE
  /\ overflowCheck = "none"
  /\ bpStatus = "running"

BpThrow ==
  /\ bpStep' = "ended"
  /\ bpStatus' = "failed"

\* page.setViewportSize({ width: bp.width, height: bp.height })
BpSetViewport ==
  /\ bpStep = "setViewportSize"
  /\ clientWidth' = breakpoints[bpIndex]
  /\ bpStep' = "goto"
  /\ UNCHANGED <<harness, bpIndex, docScrollWidth, logoVisible,
                 overflowCheck, bpStatus>>
  /\ UNCHANGED exceptResponsive

\* page.goto('/'): the page is laid out in the viewport
BpGoto(over, logo) ==
  /\ bpStep = "goto"
  /\ docScrollWidth' = clientWidth + over
  /\ logoVisible' = logo
  /\ bpStep' = "logo"
  /\ UNCHANGED <<harness, bpIndex, clientWidth, overflowCheck, bpStatus>>
  /\ UNCHANGED exceptResponsive

\* expect(logo).toBeVisible(); part_000 goes on to the overflow check
BpLogo ==
  /\ bpStep = "logo"
  /\ IF ~logoVisible
       THEN BpThrow
       ELSE /\ bpStep' = IF harness = "part_000" THEN "overflow"
                                                 ELSE "screenshot"
            /\ UNCHANGED bpStatus
  /\ UNCHANGED <<harness, bpIndex, clientWidth, docScrollWidth, logoVisible,
                 overflowCheck>>
  /\ UNCHANGED exceptResponsive

\* part_000 only: await assertNoHorizontalScroll(page)
BpOverflow ==
  /\ bpStep = "overflow"
  /\ IF hasOverflow(docScrollWidth, clientWidth)
       THEN /\ overflowCheck' = "failed"
            /\ BpThrow
       ELSE /\ overflowCheck' = "passed"
            /\ bpStep' = "screenshot"
            /\ UNCHANGED bpStatus
  /\ UNCHANGED <<harness, bpIndex, clientWidth, docScrollWidth, logoVisible>>
  /\ UNCHANGED exceptResponsive

\* page.screenshot(...): the end of the test body
BpScreenshot ==
  /\ bpStep = "screenshot"
  /\ bpStep' = "ended"
  /\ bpStatus' = "passed"
  /\ UNCHANGED <<harness, bpIndex, clientWidth, docScrollWidth, logoVisible,
                 overflowCheck>>
  /\ UNCHANGED exceptResponsive

NextResponsive ==
  \/ BpSetViewport
  \/ \E over \in Overflows, logo \in BOOLEAN : BpGoto(over, logo)
  \/ BpLogo
  \/ BpOverflow
  \/ BpScreenshot

SpecResponsive == InitResponsive /\ [][NextResponsive]_vars

\* ------ src/visual-qc.spec.js, src/unnamed/part_000: the error-free load
\* A message is the set of the marker texts it includes.
Markers == {"favicon", "font", "404", "ERR_FILE_NOT_FOUND"}
Messages == SUBSET Markers

\* e.includes(marker)
includes(e, marker) == marker \in e

\* the predicate of errors.filter: the message is kept as critical
IsCritical(h, e) ==
  IF h = "visual-qc.spec.js"
    THEN /\ ~includes(e, "favicon")
         /\ ~includes(e, "font")
         /\ ~includes(e, "404")
         /\ ~includes(e, "ERR_FILE_NOT_FOUND")
    ELSE /\ ~includes(e, "favicon")
         /\ ~includes(e, "font")
         /\ ~includes(e, "ERR_FILE_NOT_FOUND")

\* errors.filter(...)
criticalErrors(h, es) == SelectSeq(es, LAMBDA e : IsCritical(h, e))

InitErrors ==
  /\ TickerAtRest
  /\ ReportAtRest
  /\ NavAtRest
  /\ MotionAtRest
  /\ ResponsiveAtRest
  /\ ReviewAtRest
  /\ SortAtRest
  /\ FormatAtRest
  /\ ParallelAtRest
  /\ ShotsAtRest
  /\ harness \in Harnesses
  /\ errors = <<>>
  /\ errStep = "loading"
  /\ errStatus = "running"
  /\ errorSources = <<>>

\* page.on('console'): a message of type error is pushed
ConsoleError(e) ==
  /\ errStep = "loading"
  /\ Len(errors) < MaxErrors
  /\ errors' = Append(errors, e)
  /\ errorSources' = Append(errorSources, "console")
  /\ UNCHANGED <<harness, errStep, errStatus>>
  /\ UNCHANGED exceptErrors

\* page.on('pageerror'): the message of the uncaught exception is pushed
PageError(e) ==
  /\ errStep = "loading"
  /\ Len(errors) < MaxErrors
  /\ errors' = Append(errors, e)
  /\ errorSources' = Append(errorSources, "pageerror")
  /\ UNCHANGED <<harness, errStep, errStatus>>
  /\ UNCHANGED exceptErrors

\* the load is over: filter, expect(criticalErrors).toHaveLength(0)
ErrorCheck ==
  /\ errStep = "loading"
  /\ errStep' = "ended"
  /\ errStatus' = IF Len(criticalErrors(harness, errors)) = 0
                    THEN "passed" ELSE "failed"
  /\ UNCHANGED <<harness, errors, errorSources>>
  /\ UNCHANGED exceptErrors

NextErrors ==
  \/ \E e \in Messages : ConsoleError(e)
  \/ \E e \in Messages : PageError(e)
  \/ ErrorCheck

SpecErrors == InitErrors /\ [][NextErrors]_vars

\* --------------------------------- src/run-review.ps1: the review runner
\* how a check's process can end, and the state of its report file
Outcomes == {"zero", "nonzero", "timeout", "raised"}
ReportFiles == {"missing", "valid", "malformed"}
ErrorCounts == {0, 1, 2}
WarningCounts == {0, 1, 2}

\* run_command: the success flag it returns
run_command(outcome) == outcome = "zero"

\* lines 91-99, the branch on all_passed and has_major_errors without a
\* branch for critical
overall_statusNoCritical(r) ==
  LET all_passed == r.qc_check.passed /\ r.editor_review.passed
  IN  IF all_passed THEN "healthy" ELSE "needs_attention"

\* lines 91-99: the overall status of the results
overall_status(r) ==
  LET all_passed == r.qc_check.passed /\ r.editor_review.passed
      has_major_errors == r.qc_check.errors > 0
  IN  IF all_passed /\ ~has_major_errors THEN "healthy"
      ELSE IF has_major_errors THEN "critical"
      ELSE "needs_attention"

\* lines 136-141: the exit code of a status
exit_code(status) ==
  IF status = "critical" THEN 2
  ELSE IF status = "needs_attention" THEN 1
  ELSE 0

\* lines 48-54: the results main() starts with
InitialResults ==
  [qc_check |-> [passed |-> FALSE, errors |-> 0, warnings |-> 0],
   editor_review |-> [passed |-> FALSE],
   overall_status |-> "unknown"]

InitReview ==
  /\ TickerAtRest
  /\ ReportAtRest
  /\ VersionAtRest
  /\ NavAtRest
  /\ MotionAtRest
  /\ ResponsiveAtRest
  /\ ErrorsAtRest
  /\ SortAtRest
  /\ FormatAtRest
  /\ ParallelAtRest
  /\ ShotsAtRest
  /\ results = InitialResults
  /\ reviewStep = "qc_check"
  /\ exitCode = -1

\* json.load raises on a malformed report, after the success flag of the
\* check was stored: main() ends with the traceback
Crash(r) ==
  /\ reviewStep' = "crashed"
  /\ exitCode' = 1
  /\ results' = r

\* lines 57-71: the QC check and its report qc-report.json
RunQcCheck(exists, outcome, file, errs, warns) ==
  /\ reviewStep = "qc_check"
  /\ IF ~exists
       THEN /\ reviewStep' = "editor_review"
            /\ UNCHANGED <<results, exitCode>>
       ELSE IF file = "malformed"
         THEN Crash([results EXCEPT
                       !.qc_check.passed = run_command(outcome)])
         ELSE /\ reviewStep' = "editor_review"
              /\ results' =
                   [results EXCEPT
                      !.qc_check.passed = run_command(outcome),
                      !.qc_check.errors = IF file = "valid" THEN errs ELSE @,
                      !.qc_check.warnings =
                         IF file = "valid" THEN warns ELSE @]
              /\ UNCHANGED exitCode
  /\ UNCHANGED exceptReview

\* lines 74-88: the editor review and its report editor-report.json
RunEditorReview(exists, outcome, file) ==
  /\ reviewStep = "editor_review"
  /\ IF ~exists
       THEN /\ reviewStep' = "status"
            /\ UNCHANGED <<results, exitCode>>
       ELSE IF file = "malformed"
         THEN Crash([results EXCEPT
                       !.editor_review.passed = run_command(outcome)])
         ELSE /\ reviewStep' = "status"
              /\ results' = [results EXCEPT
                               !.editor_review.passed = run_command(outcome)]
              /\ UNCHANGED exitCode
  /\ UNCHANGED exceptReview

\* lines 90-99: determine the overall status
DetermineStatus ==
  /\ reviewStep = "status"
  /\ results' = [results EXCEPT !.overall_status = overall_status(results)]
  /\ reviewStep' = "exit"
  /\ UNCHANGED exitCode
  /\ UNCHANGED exceptReview

\* lines 127-141: save the combined report and exit
SaveAndExit ==
  /\ reviewStep = "exit"
  /\ exitCode' = exit_code(results.overall_status)
  /\ reviewStep' = "ended"
  /\ UNCHANGED results
  /\ UNCHANGED exceptReview

NextReview ==
  \/ \E exists \in BOOLEAN, outcome \in Outcomes, file \in ReportFiles,
        errs \in ErrorCounts, warns \in WarningCounts :
       RunQcCheck(exists, outcome, file, errs, warns)
  \/ \E exists \in BOOLEAN, outcome \in Outcomes, file \in ReportFiles :
       RunEditorReview(exists, outcome, file)
  \/ DetermineStatus
  \/ SaveAndExit

SpecReview == InitReview /\ [][NextReview]_vars

\* ---- src/js/trending-ticker.js, src/unnamed/part_001: sorting the payload
\* the two implementations of the ticker
Implementations == {"trending-ticker.js", "part_001"}

\* a repo of a fixture: id is its place in the payload
Scores == {0, 1, 2}

RECURSIVE SeqsUpTo(_, _)
SeqsUpTo(S, n) ==
  IF n = 0 THEN {<<>>}
  ELSE LET shorter == SeqsUpTo(S, n - 1)
       IN  shorter \cup {Append(s, x) : s \in shorter, x \in S}

\* the payloads: the repos in the order of the file
Payloads ==
  {[i \in 1..Len(scores) |-> [id |-> i, trending_score |-> scores[i]]] :
     scores \in SeqsUpTo(Scores, MaxRepos)}

Front(s) == SubSeq(s, 1, Len(s) - 1)

\* a comparator that orders by ascending score
compareAscending(a, b) == a.trending_score - b.trending_score

\* the comparator (a, b) => b.trending_score - a.trending_score
compare(a, b) == b.trending_score - a.trending_score

\* Array.prototype.sort is a stable sort by the comparator: x goes behind
\* every element that the comparator does not put after it
RECURSIVE Insert(_, _)
Insert(x, s) ==
  IF s = <<>> THEN <<x>>
  ELSE IF compare(s[Len(s)], x) > 0
         THEN Append(Insert(x, Front(s)), s[Len(s)])
         ELSE Append(s, x)

RECURSIVE sort(_)
sort(s) == IF s = <<>> THEN <<>> ELSE Insert(s[Len(s)], sort(Front(s)))

\* renderTicker: one card per repo in the order of repos, the whole row
\* twice; nothing for an empty list
renderCards(rs, old) ==
  IF Len(rs) = 0 THEN old
  ELSE LET html == [i \in 1..Len(rs) |-> rs[i].id] IN html \o html

InitSort ==
  /\ TickerAtRest
  /\ ReportAtRest
  /\ VersionAtRest
  /\ NavAtRest
  /\ MotionAtRest
  /\ ResponsiveAtRest
  /\ ErrorsAtRest
  /\ ReviewAtRest
  /\ FormatAtRest
  /\ ParallelAtRest
  /\ ShotsAtRest
  /\ implementation \in Implementations
  /\ data \in Payloads
  /\ sortedRepos = <<>>
  /\ cards = <<>>
  /\ sortStep = "fetching"

\* the handler of the parsed payload: repos = data.sort(...), renderTicker();
\* the sort is in place and repos is the sorted array, data keeps the
\* payload as it was received
DataReceived ==
  /\ sortStep = "fetching"
  /\ sortedRepos' = sort(data)
  /\ cards' = renderCards(sortedRepos', cards)
  /\ sortStep' = "rendered"
  /\ UNCHANGED <<implementation, data>>
  /\ UNCHANGED exceptSort

\* the catch handler: the fallback message replaces the cards
DataFailed ==
  /\ sortStep = "fetching"
  /\ cards' = <<0>>
  /\ sortStep' = "failed"
  /\ UNCHANGED <<implementation, data, sortedRepos>>
  /\ UNCHANGED exceptSort

NextSort ==
  \/ DataReceived
  \/ DataFailed

SpecSort == InitSort /\ [][NextSort]_vars

\* ---------- src/js/trending-ticker.js, src/unnamed/part_001: formatNumber
\* A string is the sequence of its characters.
Digit(d) == <<"0", "1", "2", "3", "4", "5", "6", "7", "8", "9">>[d + 1]

\* Number.prototype.toString of a non-negative integer
RECURSIVE toString(_)
toString(n) ==
  IF n < 10 THEN <<Digit(n)>> ELSE Append(toString(n \div 10), Digit(n % 10))

RECURSIVE PowMod(_, _, _)
PowMod(b, e, m) == IF e = 0 THEN 1 % m ELSE (b * PowMod(b, e - 1, m)) % m

\* the binary exponent of num / 1000, for num >= 1000
RECURSIVE Exponent(_)
Exponent(num) == IF num < 2000 THEN 0 ELSE 1 + Exponent(num \div 2)

\* num / 1000 in binary floating point: the quotient is rounded to 53
\* bits, ties to even. 1 if the double is above the quotient, -1 if it is
\* below, 0 if the quotient is a double
DivisionError(num) ==
  LET e == 52 - Exponent(num)
      scaled == ((num % 2000) * PowMod(2, e, 2000)) % 2000
      r == scaled % 1000
      odd == scaled >= 1000
  IN  IF r = 0 THEN 0
      ELSE IF r < 500 THEN -1
      ELSE IF r > 500 THEN 1
      ELSE IF odd THEN 1 ELSE -1

\* the tenths of a label that drops the second decimal
toFixedTruncating(num) == num \div 100

\* (num / 1000).toFixed(1), as the number of tenths: the tenth nearest to
\* the double, the larger one if the double is half way
toFixed(num) ==
  LET low == num \div 100
      rest == num % 100
  IN  IF rest < 50 THEN low
      ELSE IF rest > 50 THEN low + 1
      ELSE IF DivisionError(num) >= 0 THEN low + 1 ELSE low

\* formatNumber(num)
formatNumber(num) ==
  IF num >= 1000
    THEN LET t == toFixed(num)
         IN  toString(t \div 10) \o <<".", Digit(t % 10)>> \o <<"k">>
    ELSE toString(num)

InitFormat ==
  /\ TickerAtRest
  /\ ReportAtRest
  /\ VersionAtRest
  /\ NavAtRest
  /\ MotionAtRest
  /\ ResponsiveAtRest
  /\ ErrorsAtRest
  /\ ReviewAtRest
  /\ SortAtRest
  /\ ParallelAtRest
  /\ ShotsAtRest
  /\ stars_today \in 0..MaxStars
  /\ label = <<>>

\* renderTicker formats the stars of a repo
FormatStars ==
  /\ label = <<>>
  /\ label' = formatNumber(stars_today)
  /\ UNCHANGED stars_today
  /\ UNCHANGED exceptFormat

NextFormat == FormatStars

SpecFormat == InitFormat /\ [][NextFormat]_vars

\* ------------------------- src/visual-qc.spec.js: the screenshots written
\* Strings are sequences of characters.
UpperCase ==
  <<"A", "B", "C", "D", "E", "F", "G", "H", "I", "J", "K", "L", "M", "N",
      "O", "P", "Q", "R", "S", "T", "U", "V", "W", "X", "Y", "Z">>
LowerCase ==
  <<"a", "b", "c", "d", "e", "f", "g", "h", "i", "j", "k", "l", "m", "n",
      "o", "p", "q", "r", "s", "t", "u", "v", "w", "x", "y", "z">>

\* String.prototype.toLowerCase
toLowerCase(str) ==
  [i \in 1..Len(str) |->
     IF \E k \in 1..Len(UpperCase) : UpperCase[k] = str[i]
       THEN LowerCase[CHOOSE k \in 1..Len(UpperCase) : UpperCase[k] = str[i]]
       ELSE str[i]]

\* String.prototype.replace with a pattern and a replacement of one
\* character each: the first occurrence only is replaced
replace(str, pattern, replacement) ==
  LET found == {i \in 1..Len(str) : str[i] = pattern}
  IN  IF found = {} THEN str
      ELSE [str EXCEPT ![CHOOSE i \in found : \A j \in found : i <= j] =
                          replacement]

\* lines 94-101: pg.name of the tuples of pagesToTest, in order
pageNames ==
  <<<<"H", "o", "m", "e">>,
  <<"B", "l", "o", "g">>,
  <<"R", "e", "v", "i", "e", "w", "s">>,
  <<"W", "a", "l", "k", "t", "h", "r", "o", "u", "g", "h", "s">>,
  <<"R", "e", "s", "o", "u", "r", "c", "e", "s">>,
  <<"K", "A", "I", " ", "C", "o", "r", "n", "e", "r">>,
  <<"T", "a", "s", "k", "s">>,
  <<"T", "o", "o", "l", "s">>>>

\* lines 218-223: bp.name of the breakpoints, in order
breakpointNames ==
  <<<<"m", "o", "b", "i", "l", "e", "-", "s", "m", "a", "l", "l">>,
  <<"m", "o", "b", "i", "l", "e", "-", "m", "e", "d", "i", "u", "m">>,
  <<"m", "o", "b", "i", "l", "e", "-", "l", "a", "r", "g", "e">>,
  <<"t", "a", "b", "l", "e", "t">>,
  <<"d", "e", "s", "k", "t", "o", "p">>,
  <<"d", "e", "s", "k", "t", "o", "p", "-", "l", "a", "r", "g", "e">>>>

\* lines 181, 195, 209: the paths of the three device tests
devicePaths ==
  <<<<"s", "c", "r", "e", "e", "n", "s", "h", "o", "t", "s", "/", "m", "o",
      "b", "i", "l", "e", "-", "i", "p", "h", "o", "n", "e", "-", "1", "2",
      ".", "p", "n", "g">>,
  <<"s", "c", "r", "e", "e", "n", "s", "h", "o", "t", "s", "/", "m", "o",
      "b", "i", "l", "e", "-", "p", "i", "x", "e", "l", "-", "5", ".", "p",
      "n", "g">>,
  <<"s", "c", "r", "e", "e", "n", "s", "h", "o", "t", "s", "/", "t", "a",
      "b", "l", "e", "t", "-", "i", "p", "a", "d", "-", "m", "i", "n", "i",
      ".", "p", "n", "g">>>>

\* lines 46, 79, 155: the paths of the homepage tests
logoPath ==
  <<"s", "c", "r", "e", "e", "n", "s", "h", "o", "t", "s", "/", "l", "o",
      "g", "o", "-", "v", "i", "s", "i", "b", "l", "e", ".", "p", "n", "g">>
tickerPath ==
  <<"s", "c", "r", "e", "e", "n", "s", "h", "o", "t", "s", "/", "t", "i",
      "c", "k", "e", "r", "-", "a", "n", "i", "m", "a", "t", "i", "n", "g",
      ".", "p", "n", "g">>
homepagePath ==
  <<"s", "c", "r", "e", "e", "n", "s", "h", "o", "t", "s", "/", "h", "o",
      "m", "e", "p", "a", "g", "e", "-", "l", "o", "a", "d", "e", "d", ".",
      "p", "n", "g">>

navPrefix ==
  <<"s", "c", "r", "e", "e", "n", "s", "h", "o", "t", "s", "/", "n", "a",
      "v", "-">>
responsivePrefix ==
  <<"s", "c", "r", "e", "e", "n", "s", "h", "o", "t", "s", "/", "r", "e",
      "s", "p", "o", "n", "s", "i", "v", "e", "-">>
pngSuffix == <<".", "p", "n", "g">>

\* a path for the navigation screenshots that leaves pg.name out
navPathUnnamed(name) == navPrefix \o pngSuffix

\* line 120: `screenshots/nav-${pg.name.toLowerCase().replace(' ', '-')}.png`
navPath(name) ==
  navPrefix \o replace(toLowerCase(name), " ", "-") \o pngSuffix

\* line 237: `screenshots/responsive-${bp.name}.png`
responsivePath(name) == responsivePrefix \o name \o pngSuffix

\* the screenshot statements of the suite
NavShots == {[test |-> "navigation", index |-> i] : i \in 1..Len(pageNames)}
DeviceShots == {[test |-> "mobile", index |-> i] : i \in 1..Len(devicePaths)}
ResponsiveShots ==
  {[test |-> "responsive", index |-> i] : i \in 1..Len(breakpointNames)}
HomepageShots ==
  {[test |-> t, index |-> 1] : t \in {"logo", "ticker", "homepage"}}
ScreenshotSteps ==
  HomepageShots \cup NavShots \cup DeviceShots \cup ResponsiveShots

InitShots ==
  /\ TickerAtRest
  /\ ReportAtRest
  /\ VersionAtRest
  /\ NavAtRest
  /\ MotionAtRest
  /\ ResponsiveAtRest
  /\ ErrorsAtRest
  /\ ReviewAtRest
  /\ SortAtRest
  /\ FormatAtRest
  /\ ParallelAtRest
  /\ shotsTaken = {}
  /\ shotsWritten = {}

\* page.screenshot({ path }) by the statement step
screenshot(step, path) ==
  /\ shotsTaken' = shotsTaken \cup {step}
  /\ shotsWritten' = shotsWritten \cup {<<path, step>>}
  /\ UNCHANGED exceptShots

\* lines 45-48
LogoShot ==
  /\ [test |-> "logo", index |-> 1] \notin shotsTaken
  /\ screenshot([test |-> "logo", index |-> 1], logoPath)

\* lines 78-81
TickerShot ==
  /\ [test |-> "ticker", index |-> 1] \notin shotsTaken
  /\ screenshot([test |-> "ticker", index |-> 1], tickerPath)

\* lines 154-157
HomepageShot ==
  /\ [test |-> "homepage", index |-> 1] \notin shotsTaken
  /\ screenshot([test |-> "homepage", index |-> 1], homepagePath)

\* lines 104-125: the screenshot of tuple i, after those of the tuples
\* before it
NavShot(i) ==
  /\ [test |-> "navigation", index |-> i] \notin shotsTaken
  /\ \A j \in 1..(i - 1) : [test |-> "navigation", index |-> j] \in shotsTaken
  /\ screenshot([test |-> "navigation", index |-> i], navPath(pageNames[i]))

\* lines 180-183, 194-197, 208-211
DeviceShot(i) ==
  /\ [test |-> "mobile", index |-> i] \notin shotsTaken
  /\ screenshot([test |-> "mobile", index |-> i], devicePaths[i])

\* lines 236-239
ResponsiveShot(i) ==
  /\ [test |-> "responsive", index |-> i] \notin shotsTaken
  /\ screenshot([test |-> "responsive", index |-> i],
                responsivePath(breakpointNames[i]))

NextShots ==
  \/ LogoShot
  \/ TickerShot
  \/ HomepageShot
  \/ \E i \in 1..Len(pageNames) : NavShot(i)
  \/ \E i \in 1..Len(devicePaths) : DeviceShot(i)
  \/ \E i \in 1..Len(breakpointNames) : ResponsiveShot(i)

SpecShots == InitShots /\ [][NextShots]_vars

\* ------------------------------------------------------- shared vocabulary

\* the step ran at least one animate callback
CallbackStep == lastCallbackTime' # lastCallbackTime

\* the step ran animate with the container visible and the ticker not paused
UnpausedTick == CallbackStep /\ isVisible /\ ~isPaused

\* currentPosition + TICKER_SPEED * direction * deltaTime of the next tick
Raw == currentPosition + Advance(direction, now - lastTime)

InRange == ReverseBound <= currentPosition /\ currentPosition <= 0

Wide == ContentWidth >= offsetWidth

\* ----------------------------------------------------------------------- C1
\* C1: with content at least as wide as the container and the widths fixed,
\* currentPosition stays in [-(contentWidth - containerWidth), 0]: it is in
\* range initially and no step between two states of equal, wide widths
\* takes it out of range, whatever time elapsed before a tick.
C1_PositionStaysInRange ==
  [][(Wide /\ scrollWidth' = scrollWidth /\ offsetWidth' = offsetWidth
       /\ InRange) => InRange']_vars

\* a tick of 2000 ms overshot the reverse bound and was clamped to it
C1_Witness ==
  /\ Wide /\ ReverseBound < 0
  /\ lastCallbackTime = now /\ deltaTime = 2000
  /\ currentPosition = ReverseBound /\ direction = 1

\* ----------------------------------------------------------------------- C2
\* C2: at most one requestAnimationFrame callback of the ticker is pending.
C2_AtMostOnePendingFrame == Cardinality(pendingFrames) <= 1

\* ----------------------------------------------------------------------- C3
\* C3: when the fetch has failed the fallback message is shown, no animation
\* frame was ever requested and currentPosition still has its initial value.
C3_FetchFailureNoAnimation ==
  fetchState = "failed" =>
    innerHTML = "error" /\ ~rafIssued /\ currentPosition = 0

\* ----------------------------------------------------------------------- C4
\* C4: no step changes currentPosition while isPaused, a dwell timer is set
\* for 2000 ms, and the first unpaused tick after the dwell, if it changes
\* currentPosition, moves it in the direction set at the bound.
C4_DwellFreezesThenMovesAway ==
  [][/\ isPaused => currentPosition' = currentPosition
     /\ (~isPaused /\ isPaused') => dwellTimers' = <<now + TICKER_PAUSE>>
     /\ (dwellPhase = "ended" /\ currentPosition' # currentPosition)
          => (currentPosition' - currentPosition) * direction > 0]_vars

TimerFired ==
  /\ dwellTimers # <<>> /\ Head(dwellTimers) <= now
  /\ dwellTimers' = Tail(dwellTimers)

\* C6 (as stated): isPaused becomes true only in a tick that reversed
\* direction at a bound and starts a 2000 ms timer, and it becomes false
\* exactly when that timer fires; isPaused holds exactly while the timer is
\* pending.
C6_PausedOnlyAfterFlip ==
  [][/\ (~isPaused /\ isPaused') =>
          /\ UnpausedTick /\ (Raw >= 0 \/ Raw <= ReverseBound)
          /\ direction' = -direction
          /\ dwellTimers' = <<now + TICKER_PAUSE>>
     /\ (isPaused /\ ~isPaused') <=> TimerFired
     /\ isPaused' <=> (dwellTimers' # <<>>)]_vars

\* C6 (amended): isPaused becomes true only in an unpaused tick that brought
\* currentPosition to or past a bound and set direction away from that bound;
\* that tick starts a 2000 ms timer and isPaused becomes false exactly when
\* the timer fires, also while the container is hidden.
C6_PausedOnlyAtBound ==
  [][/\ (~isPaused /\ isPaused') =>
          /\ UnpausedTick /\ (Raw >= 0 \/ Raw <= ReverseBound)
          /\ direction' = (IF Raw >= 0 THEN -1 ELSE 1)
          /\ dwellTimers' = <<now + TICKER_PAUSE>>
     /\ (isPaused /\ ~isPaused') <=> TimerFired
     /\ isPaused' <=> (dwellTimers' # <<>>)]_vars

\* the dwell that followed a reversal at the reverse bound ended while the
\* container was hidden
C6_Witness ==
  /\ dwellPhase = "ended" /\ ~isPaused /\ ~isVisible
  /\ Wide /\ ReverseBound < 0 /\ currentPosition = ReverseBound
  /\ direction = 1 /\ dwellTimers = <<>>

\* ----------------------------------------------------------------------- C7
\* C7: the first unpaused tick after a dwell steps currentPosition by
\* TICKER_SPEED times an elapsed time that is no longer than the time since
\* the preceding frame callback, clamped to the bounds.
C7_NoTimeJumpAfterDwell ==
  [][(UnpausedTick /\ dwellPhase = "ended") =>
       /\ now - lastTime <= now - lastCallbackTime
       /\ currentPosition' = (IF Raw >= 0 THEN 0
                              ELSE IF Raw <= ReverseBound THEN ReverseBound
                              ELSE Raw)]_vars

\* after a dwell of 2000 ms at the forward bound, with a frame callback 500 ms
\* before, the first unpaused tick moved the strip by 25 px, not by 125 px
C7_Witness ==
  /\ dwellPhase = "resumed" /\ deltaTime = 500
  /\ Wide /\ currentPosition = -25 /\ direction = -1
  /\ lastCallbackTime = now

\* ----------------------------------------------------------------------- C8
\* C8: a frame callback that runs while isVisible is false changes neither
\* currentPosition nor direction nor the transform.
C8_HiddenTickChangesNothing ==
  [][(CallbackStep /\ ~isVisible) =>
       UNCHANGED <<currentPosition, direction, transform>>]_vars

\* a callback ran while hidden, mid-track, with time elapsed since the last
\* step, and gave up the loop
C8_Witness ==
  /\ ~isVisible /\ lastCallbackTime = now /\ lastTime < now
  /\ animationId = NULL /\ pendingFrames = {}
  /\ Wide /\ ReverseBound < currentPosition /\ currentPosition < 0

\* ----------------------------------------------------------------------- C9
\* C9: an observer callback that changes isVisible leaves currentPosition,
\* direction and isPaused unchanged, and the first unpaused tick after the
\* container became visible again steps by an elapsed time that starts no
\* earlier than the moment it became visible.
C9_VisibilityKeepsStateAndTime ==
  [][/\ isVisible' # isVisible =>
          UNCHANGED <<currentPosition, direction, isPaused>>
     /\ (UnpausedTick /\ shownAt >= 0) => lastTime >= shownAt]_vars

\* ----------------------------------------------------------------------- C10
\* C10: after the page is unloaded no animation frame callback and no dwell
\* timer of the ticker is pending.
C10_TeardownCancelsAll ==
  unloaded => pendingFrames = {} /\ dwellTimers = <<>>

\* ------------------------------------------- claims on the report writer

\* the entries of a report.json file
Entries(file) == {file[i] : i \in 1..Len(file)}

\* the result entry of an executed test case is in the file
Recorded(e) ==
  \E r \in Entries(reportJson[e.date]) :
    /\ r.test = e.test
    /\ r.status = e.status
    /\ r.timestamp = e.run

\* C11: when the hooks of the N test cases run so far in the current run
\* are done, the report.json of their date holds exactly N result entries
\* of this run, one per test case, failed cases included
C11_OneEntryPerTestCase ==
  pendingHook = <<>> =>
    \A d \in Dates :
      LET mine == {e \in executed : e.run = run /\ e.date = d}
          ofRun == {i \in 1..Len(reportJson[d]) :
                      reportJson[d][i].timestamp = run}
      IN  /\ Cardinality(ofRun) = Cardinality(mine)
          /\ \A e \in mine : Recorded(e)

\* C14: after any sequence of afterEach writes nothing written earlier is
\* lost: every result entry ever written to a date's report.json is still
\* in it, and every screenshot ever copied into a date directory is still
\* there with the content it was copied with
C14_NothingWrittenIsLost ==
  /\ \A w \in everReported : w[2] \in Entries(reportJson[w[1]])
  /\ \A c \in everCopied :
       /\ c[2] \in Files(qcScreenshots[c[1]])
       /\ qcScreenshots[c[1]][c[2]] = c[3]

\* C15: the artifacts list recorded for a test case is the set of the
\* screenshots that test case captured: no screenshot of another test case
\* or of an earlier run is in it
C15_ArtifactsAreOwnScreenshots ==
  \A e \in executed :
    \A r \in Entries(reportJson[e.date]) :
      (r.test = e.test /\ r.timestamp = e.run) => r.artifacts = e.captured

\* --------------------------------------- claims on the navigation walk

\* C12: a failure on one tuple does not stop the walk: when the test case
\* has ended, all 8 tuples were exercised and the failure of every faulty
\* tuple is recorded
C12_WalkExercisesAllTuples ==
  navStep = "ended" /\ navStatus # "none" =>
    /\ exercised = NavPages
    /\ navRecorded = Faulty(navFaults)

\* ------------------------------------------ claims on the motion proof

\* C13: on a visible, loaded ticker in steady ping-pong animation with a
\* track longer than 5 px the motion proof reports no false negative:
\* whenever the two samples are taken, they differ by more than 5 px, also
\* when the wait between them overlaps a dwell
C13_NoFalseNegative ==
  (motionStep = "ended" /\ motionStatus # "none" /\ Wide /\ isVisible) =>
    /\ Abs(x1 - x0) > MIN_DELTA
    /\ motionStatus = "passed"

\* -------------------------------------- claims on the breakpoint tests

\* C16: at each of the six breakpoints, in both versions of the harness,
\* the test case fails whenever the document's scrollWidth exceeds its
\* clientWidth by more than 1 px, and the overflow check does not fail
\* when scrollWidth <= clientWidth + 1
C16_OverflowFailsTheBreakpoint ==
  bpStep = "ended" /\ bpStatus # "none" =>
    /\ docScrollWidth > clientWidth + 1 => bpStatus = "failed"
    /\ docScrollWidth <= clientWidth + 1 => overflowCheck # "failed"

\* ------------------------------------- claims on the error-free load

\* the message belongs to a known-benign category
Benign(e) == e \cap {"favicon", "font", "404", "ERR_FILE_NOT_FOUND"} # {}

\* C17: in both versions of the harness the error-free load check passes
\* exactly when every collected message mentions favicon, font, 404 or
\* ERR_FILE_NOT_FOUND
C17_PassesIffAllBenign ==
  errStep = "ended" /\ errStatus # "none" =>
    (errStatus = "passed" <=> \A i \in 1..Len(errors) : Benign(errors[i]))

\* --------------------------------------- claims on the review runner

\* the runner ended by sys.exit after determining the status
Reviewed == reviewStep = "ended"

AllPassed == results.qc_check.passed /\ results.editor_review.passed

C19_CardsInStableDescendingOrder ==
  sortStep = "rendered" =>
    LET n == Len(data)
    IN  /\ Len(sortedRepos) = n
        /\ {sortedRepos[i].id : i \in 1..n} = 1..n
        /\ \A i \in 1..n : sortedRepos[i] = data[sortedRepos[i].id]
        /\ \A i, j \in 1..n :
             i < j =>
               \/ sortedRepos[i].trending_score > sortedRepos[j].trending_score
               \/ /\ sortedRepos[i].trending_score
                       = sortedRepos[j].trending_score
                  /\ sortedRepos[i].id < sortedRepos[j].id
        /\ Len(cards) = 2 * n
        /\ \A i \in 1..n :
             /\ cards[i] = sortedRepos[i].id
             /\ cards[n + i] = sortedRepos[i].id

\* a rendered payload with two repos of equal score and a repo that had
\* to move in front of an earlier one
C19_Witness ==
  /\ sortStep = "rendered"
  /\ \E i, j \in 1..Len(data) :
       i < j /\ data[i].trending_score = data[j].trending_score
  /\ \E i, j \in 1..Len(data) :
       i < j /\ data[i].trending_score < data[j].trending_score
  /\ Len(cards) = 2 * Len(data)

\* ------------------------------------------------ claims on formatNumber

IsDigit(c) == \E d \in 0..9 : Digit(d) = c

DigitValue(c) == CHOOSE d \in 0..9 : Digit(d) = c

\* the number a string of digits denotes
RECURSIVE DecimalValue(_)
DecimalValue(str) ==
  IF str = <<>> THEN 0
  ELSE 10 * DecimalValue(SubSeq(str, 1, Len(str) - 1))
         + DigitValue(str[Len(str)])

\* a string of digits without a leading zero, or "0"
IsDecimal(str) ==
  /\ Len(str) >= 1
  /\ \A i \in 1..Len(str) : IsDigit(str[i])
  /\ Len(str) > 1 => str[1] # "0"

\* C20: formatNumber(n) is the decimal integer n when n < 1000; when
\* n >= 1000 it is a decimal number with exactly one decimal place
\* followed by k, and that number is a tenth nearest to n / 1000
\* (999 gives 999, 1000 gives 1.0k, 1500 gives 1.5k)
C20_FormatNumber ==
  label # <<>> =>
    /\ stars_today < 1000 =>
         /\ IsDecimal(label)
         /\ DecimalValue(label) = stars_today
    /\ stars_today >= 1000 =>
         /\ Len(label) >= 4
         /\ label[Len(label)] = "k"
         /\ label[Len(label) - 2] = "."
         /\ IsDigit(label[Len(label) - 1])
         /\ IsDecimal(SubSeq(label, 1, Len(label) - 3))
         /\ LET tenths ==
                  10 * DecimalValue(SubSeq(label, 1, Len(label) - 3))
                    + DigitValue(label[Len(label) - 1])
            IN  /\ 100 * tenths - stars_today <= 50
                /\ stars_today - 100 * tenths <= 50
    /\ stars_today = 999 => label = <<"9", "9", "9">>
    /\ stars_today = 1000 => label = <<"1", ".", "0", "k">>
    /\ stars_today = 1500 => label = <<"1", ".", "5", "k">>

\* 1500 stars are shown as 1.5k
C20_Witness ==
  /\ stars_today = 1500
  /\ label = <<"1", ".", "5", "k">>

\* ---------------------------------------------------------------------- C21
\* C21: in src/js/trending-ticker.js no animation frame is requested and
\* currentPosition keeps its initial value until the fetch of the fixture
\* has resolved and renderTicker has run, whenever the first observer
\* callback comes
C21_FetchRenderThenAnimate ==
  fetchState \in {"none", "pending"} => ~rafIssued /\ currentPosition = 0

\* ---------------------------------------------------------------------- C22
\* C22: in src/js/trending-ticker.js currentPosition is never positive, for
\* every content width and container width, an empty fixture included
C22_NeverRightOfOrigin == currentPosition <= 0

\* ---------------------------------------------------------------------- C23
\* the one animation loop of part_001 runs on content at least as wide as
\* the container
OneWideLoop001 ==
  /\ Len(closures) = 1
  /\ closures[1].contentWidth >= offsetWidth

\* C23: in src/unnamed/part_001 a tick that carries currentPosition to or
\* past a bound leaves it on that bound: with contentWidth >= containerWidth
\* currentPosition is in [-(contentWidth - containerWidth), 0] after every
\* tick
C23_ClampedToBounds001 ==
  OneWideLoop001 =>
    /\ -(closures[1].contentWidth - offsetWidth) <= currentPosition
    /\ currentPosition <= 0

\* ---------------------------------------------------------------------- C24
\* the strip of part_001 rests on or beyond a bound, turned away from it,
\* and the dwell is over
AfterDwell001 ==
  /\ OneWideLoop001
  /\ ~isPaused /\ dwellTimers = <<>>
  /\ \/ currentPosition >= 0 /\ direction = -1
     \/ /\ currentPosition <= -(closures[1].contentWidth - offsetWidth)
        /\ direction = 1

\* C24: in src/unnamed/part_001 the first tick after a dwell moves
\* currentPosition by no more than TICKER_SPEED times the time since the
\* frame callback before it
C24_NoTimeJumpAfterDwell001 ==
  [][(AfterDwell001 /\ pendingFrames # {} /\ lastRender' # lastRender) =>
       Abs(currentPosition' - currentPosition)
         <= Abs(Advance(1, now - lastRender))]_vars

\* ---------------------------------------------------------------------- C25
\* C25: in src/unnamed/part_001 initTicker runs once per page load whatever
\* the readyState was when the script ran: one fetch of the fixture, one
\* animation loop, one pending frame callback
C25_InitTickerRunsOnce001 ==
  /\ fetchesInFlight + Len(closures) <= 1
  /\ Cardinality(pendingFrames) <= 1

\* ---------------------------------------------------------------------- C27
\* C27: in src/js/trending-ticker.js at most one dwell timer is pending at
\* any time, and a step sets a dwell timer only when none is pending, for
\* every sequence of ticks, visibility changes and timer firings
C27_OneDwellTimer ==
  /\ [](Len(dwellTimers) <= 1)
  /\ [][Len(dwellTimers') > Len(dwellTimers) => dwellTimers = <<>>]_vars

\* a second dwell, at the forward bound, is running after the dwell at the
\* reverse bound has ended
C27_Witness ==
  /\ Wide /\ ReverseBound < 0
  /\ Len(dwellTimers) = 1 /\ isPaused
  /\ currentPosition = 0 /\ direction = -1 /\ lastTime > 0

\* ---------------------------------------------------------------------- C30
\* C30: in the review runner the step of a check that did not pass (script
\* missing, timeout, exception, non-zero exit) records passed = false and
\* does not end the runner; a run with such a check ends with a status
\* other than healthy and an exit code other than 0; the exit code is 2 for
\* critical, 1 for needs_attention and 0 for healthy
C30_FailedCheckDoesNotAbort ==
  /\ [](Reviewed =>
          /\ ~AllPassed =>
               results.overall_status # "healthy" /\ exitCode # 0
          /\ exitCode = exit_code(results.overall_status))
  /\ [][/\ (reviewStep = "qc_check" /\ ~results'.qc_check.passed)
             => reviewStep' = "editor_review"
        /\ (reviewStep = "editor_review" /\ ~results'.editor_review.passed)
             => reviewStep' = "status"]_vars

\* ---------------------------------------------------------------------- C26
\* C26: when the afterEach hooks of two test cases interleave under parallel
\* workers, whenever no hook is mid-execution report.json and report.md of
\* each date directory describe the same test case, with the same title and
\* status
C26_ReportsCoherent ==
  AllHooksIdle =>
    \A d \in Dates :
      \/ reportJson[d] = <<>> /\ reportMd[d] = <<>>
      \/ /\ reportJson[d] # <<>> /\ reportMd[d] # <<>>
         /\ reportJson[d][1].test = reportMd[d][1].test
         /\ reportJson[d][1].status = reportMd[d][1].status

\* ---------------------------------------------------------------------- C29
\* the paths written so far
PathsWritten == {w[1] : w \in shotsWritten}

\* C29: no two distinct screenshot statements of the suite write the same
\* path: the paths of the 3 homepage cases, the 8 navigation tuples, the 3
\* device cases and the 6 breakpoints are pairwise distinct
C29_DisjointScreenshotPaths ==
  \A v \in shotsWritten, w \in shotsWritten : v[1] = w[1] => v[2] = w[2]

\* all 20 statements have run and 20 files are there, the one of the tuple
\* 'KAI Corner' under the name nav-kai-corner.png
C29_Witness ==
  /\ shotsTaken = ScreenshotSteps
  /\ Cardinality(ScreenshotSteps) = 20
  /\ Cardinality(PathsWritten) = 20
  /\ <<<<"s", "c", "r", "e", "e", "n", "s", "h", "o", "t", "s", "/", "n",
        "a", "v", "-", "k", "a", "i", "-", "c", "o", "r", "n", "e", "r",
        ".", "p", "n", "g">>,
       [test |-> "navigation", index |-> 6]>> \in shotsWritten

\* ---------------------------------------------------------------------- C28
\* the fixture has loaded, the track has a positive length, the page is
\* there and the container is visible
LoadedAndVisible ==
  /\ fetchState = "ok" /\ ReverseBound < 0
  /\ ~unloaded /\ isVisible

\* C28: in src/js/trending-ticker.js, if from some time on the fixture has
\* loaded, the track length is positive and the container stays visible,
\* then with rendering updates and timers served fairly currentPosition is
\* at the reverse bound infinitely often and at the forward bound infinitely
\* often, whatever visibility changes and dwells came before
C28_KeepsReachingBothBounds ==
  <>[]LoadedAndVisible =>
    /\ []<>(currentPosition = ReverseBound)
    /\ []<>(currentPosition = 0)

\* the loop stopped while the container was hidden, with the strip at the
\* reverse bound, and the observer has requested a frame again
C28_Witness ==
  /\ LoadedAndVisible
  /\ currentPosition = ReverseBound
  /\ lastCallbackTime # -1 /\ lastCallbackTime < lastRender
  /\ shownAt # -1 /\ pendingFrames # {}

====
